---- MODULE Spec2Model ----
(***************************************************************************)
(* vis2attr: response parsing, confidence decision and the pipeline that   *)
(* drives them (parse/json_parser.py, parse/base.py, parse/factory.py,     *)
(* parse/service.py, core/config.py, pipeline/service.py, storage/files.py)*)
(*                                                                         *)
(* A response text is a sequence of lexical tokens (one token = one brace, *)
(* bracket, comma, "key": prefix, literal, fence, comment marker, word or  *)
(* whitespace run).  Confidences are exact fixed-point numbers: 1.0 is One *)
(* ticks, so that every mean the code takes is an integer number of ticks. *)
(***************************************************************************)
EXTENDS Integers, Sequences, FiniteSets, TLC

VARIABLES
    content,      \* text handed to _extract_json / carried by the VLMRaw
    xpc,          \* position of _extract_json: the strategy it is about to try
    xtried,       \* strategies _extract_json has tried so far, in order
    xresult,      \* what _extract_json returned (a token sequence) or NoText
    markdown,     \* JSONParser.extract_from_markdown
    strict_json,  \* JSONParser.strict_json
    can_parse_result, \* the answers JSONParser.can_parse has given on the response
    schema,       \* schema handed to the parser
    thresholds,   \* Config.thresholds
    ppc,          \* position of the parse-then-decide run
    attributes,   \* Attributes returned by the parser, or NoRecord
    decision,     \* Decision returned by _make_decision, or NoDecision
    paths,        \* analyze_batch: input_paths
    idx,          \* analyze_batch: number of paths already analysed
    bpc,          \* analyze_item: the step the current item is about to take
    item_id,      \* analyze_item: item_id (None until ingestion succeeds)
    raw_response, \* analyze_item: content returned by provider.predict
    storage,      \* the storage backend: sequence of stored files
    storage_ids,  \* _store_results: storage ids collected so far
    results,      \* analyze_batch: results
    retrieved,    \* what the last retrieve_attributes call returned, for which id
    calls,        \* the parse and _make_decision calls made so far, with what each returned
    last_call,   \* the storage call made last and what it returned
    setup,       \* PipelineService.__init__: the config, the next _setup_ step, the error raised
    factory,     \* ParserFactory: _parsers and what the last get_parser call returned
    parquet      \* ParquetStorage: the file and each worker's position in its store call

vars == <<content, xpc, xtried, xresult, markdown, strict_json, can_parse_result, schema, thresholds, ppc,
          attributes, decision, paths, idx, bpc, item_id, raw_response,
          storage, storage_ids, results,
         retrieved, calls, last_call, setup, factory, parquet>>

extractVars  == <<content, xpc, xtried, xresult, markdown, strict_json, can_parse_result>>
parseVars    == <<schema, thresholds, ppc, attributes, decision>>
pipelineVars == <<paths, idx, bpc, item_id, raw_response, storage, storage_ids, results>>
storeVars    == <<retrieved>>
callVars     == <<calls>>
lastVars == <<last_call>>
setupVars == <<setup>>
factoryVars == <<factory>>
parquetVars == <<parquet>>

-----------------------------------------------------------------------------
(* Bounds *)

MaxItems == 2      \* longest list value in a generated response
MaxSegs == 3       \* number of text fragments concatenated into a response text
MaxPaths == 2      \* longest input_paths list handed to analyze_batch

-----------------------------------------------------------------------------
(* Fixed-point confidences *)

RECURSIVE Fact(_)
Fact(n) == IF n <= 1 THEN 1 ELSE n * Fact(n - 1)

\* the three fields of the schemas below, and the list lengths, divide Mult
Mult == Fact(MaxItems + 1) * Fact(4)
Cent == Mult                \* 0.01
One == 100 * Cent           \* 1.0

RECURSIVE SumSeq(_)
SumSeq(s) == IF s = <<>> THEN 0 ELSE Head(s) + SumSeq(Tail(s))

RECURSIVE SumFun(_, _)
SumFun(f, D) ==
    IF D = {} THEN 0
    ELSE LET k == CHOOSE k \in D : TRUE IN f[k] + SumFun(f, D \ {k})

Min(a, b) == IF a <= b THEN a ELSE b
Max(a, b) == IF a >= b THEN a ELSE b

-----------------------------------------------------------------------------
(* JSON values and json.loads on token sequences *)

JStr(x) == [t |-> "str", s |-> x]
JNum(n) == [t |-> "num", n |-> n]
JObj(m) == [t |-> "obj", m |-> m]
JArr(a) == [t |-> "arr", a |-> a]
JBool(b) == [t |-> "bool", b |-> b]
JNull == [t |-> "null"]

WsToks == {" ", "\n"}
KeyToks == {"brand:", "primary_colors:", "notes:", "other:", "value:",
            "confidence:", "name:"}
KeyName == ("brand:" :> "brand" @@ "primary_colors:" :> "primary_colors" @@ "notes:" :> "notes"
            @@ "other:" :> "other" @@ "value:" :> "value"
            @@ "confidence:" :> "confidence" @@ "name:" :> "name")
StrToks == {"'Nike'", "'red'"}
NumToks == {"-0.3", "0.4", "0.7", "0.9", "1.5"}
NumVal == ("-0.3" :> (0 - 30) * Cent @@ "0.4" :> 40 * Cent @@ "0.7" :> 70 * Cent
           @@ "0.9" :> 90 * Cent @@ "1.5" :> 150 * Cent)

LoadFail == [ok |-> FALSE, v |-> JNull, n |-> 0]

RECURSIVE SkipWs(_, _)
SkipWs(s, i) == IF i <= Len(s) /\ s[i] \in WsToks THEN SkipWs(s, i + 1) ELSE i

RECURSIVE ParseValue(_, _), ParseMembers(_, _, _), ParseElements(_, _, _)

\* one JSON value starting at or after position i; n is the position after it
ParseValue(s, i) ==
    LET j == SkipWs(s, i) IN
    IF j > Len(s) THEN LoadFail
    ELSE IF s[j] \in StrToks THEN [ok |-> TRUE, v |-> JStr(s[j]), n |-> j + 1]
    ELSE IF s[j] \in NumToks THEN [ok |-> TRUE, v |-> JNum(NumVal[s[j]]), n |-> j + 1]
    ELSE IF s[j] = "null" THEN [ok |-> TRUE, v |-> JNull, n |-> j + 1]
    ELSE IF s[j] = "true" THEN [ok |-> TRUE, v |-> JBool(TRUE), n |-> j + 1]
    ELSE IF s[j] = "{" THEN
        LET k == SkipWs(s, j + 1) IN
        IF k <= Len(s) /\ s[k] = "}"
        THEN [ok |-> TRUE, v |-> JObj(<<>>), n |-> k + 1]
        ELSE ParseMembers(s, k, <<>>)
    ELSE IF s[j] = "[" THEN
        LET k == SkipWs(s, j + 1) IN
        IF k <= Len(s) /\ s[k] = "]"
        THEN [ok |-> TRUE, v |-> JArr(<<>>), n |-> k + 1]
        ELSE ParseElements(s, k, <<>>)
    ELSE LoadFail

\* "key": value pairs up to the closing brace; a repeated key keeps the last value
ParseMembers(s, i, m) ==
    LET j == SkipWs(s, i) IN
    IF j > Len(s) \/ s[j] \notin KeyToks THEN LoadFail
    ELSE LET r == ParseValue(s, j + 1) IN
         IF ~r.ok THEN LoadFail
         ELSE LET k == SkipWs(s, r.n)
                  key == KeyName[s[j]]
                  m2 == [f \in (DOMAIN m) \cup {key} |-> IF f = key THEN r.v ELSE m[f]]
              IN IF k > Len(s) THEN LoadFail
                 ELSE IF s[k] = "}" THEN [ok |-> TRUE, v |-> JObj(m2), n |-> k + 1]
                 ELSE IF s[k] = "," THEN ParseMembers(s, k + 1, m2)
                 ELSE LoadFail

ParseElements(s, i, a) ==
    LET r == ParseValue(s, i) IN
    IF ~r.ok THEN LoadFail
    ELSE LET k == SkipWs(s, r.n)
             a2 == Append(a, r.v)
         IN IF k > Len(s) THEN LoadFail
            ELSE IF s[k] = "]" THEN [ok |-> TRUE, v |-> JArr(a2), n |-> k + 1]
            ELSE IF s[k] = "," THEN ParseElements(s, k + 1, a2)
            ELSE LoadFail

\* json.loads: one value, surrounded by optional whitespace, and nothing else
Loads(s) ==
    LET r == ParseValue(s, 1) IN
    IF r.ok /\ SkipWs(s, r.n) = Len(s) + 1 THEN r ELSE LoadFail

\* a test that takes the empty text for JSON (not the program's)
EmptyIsJson(s) == s = <<>> \/ Loads(s).ok

is_pure_json(s) == Loads(s).ok

-----------------------------------------------------------------------------
(* Text scanning: str.strip, re.findall with the two patterns, comment removal *)

NoText == [found |-> FALSE, text |-> <<>>]
Found(s) == [found |-> TRUE, text |-> s]

RECURSIVE RStrip(_)
RStrip(s) == IF s /= <<>> /\ s[Len(s)] \in WsToks THEN RStrip(SubSeq(s, 1, Len(s) - 1)) ELSE s

\* str.strip()
Strip(s) == LET i == SkipWs(s, 1) IN RStrip(SubSeq(s, i, Len(s)))

\* first position >= i holding token tok, Len(s) + 1 when there is none
RECURSIVE IndexFrom(_, _, _)
IndexFrom(s, tok, i) ==
    IF i > Len(s) THEN Len(s) + 1
    ELSE IF s[i] = tok THEN i ELSE IndexFrom(s, tok, i + 1)

\* first position >= i holding a brace, Len(s) + 1 when there is none
RECURSIVE NextBrace(_, _)
NextBrace(s, i) ==
    IF i > Len(s) THEN Len(s) + 1
    ELSE IF s[i] \in {"{", "}"} THEN i ELSE NextBrace(s, i + 1)

\* the lazy  \{.*?\}\s*FENCE  tail (FENCE is the three-backtick marker): the first closing brace at or after e that is
\* followed by optional whitespace and a fence; 0 when there is none
RECURSIVE MdClose(_, _)
MdClose(s, e) ==
    LET c == IndexFrom(s, "}", e) IN
    IF c > Len(s) THEN 0
    ELSE LET f == SkipWs(s, c + 1) IN
         IF f <= Len(s) /\ s[f] = "FENCE" THEN c ELSE MdClose(s, c + 1)

\* the pattern FENCE(?:json)?\s*(\{.*?\})\s*FENCE tried at position p:
\* b..e is the captured group, f the closing fence
MdMatchAt(s, p) ==
    IF s[p] /= "FENCE" THEN [ok |-> FALSE, b |-> 0, e |-> 0, f |-> 0]
    ELSE LET q == IF p + 1 <= Len(s) /\ s[p + 1] = "json" THEN p + 2 ELSE p + 1
             b == SkipWs(s, q)
         IN IF b > Len(s) \/ s[b] /= "{" THEN [ok |-> FALSE, b |-> 0, e |-> 0, f |-> 0]
            ELSE LET e == MdClose(s, b + 1) IN
                 IF e = 0 THEN [ok |-> FALSE, b |-> 0, e |-> 0, f |-> 0]
                 ELSE [ok |-> TRUE, b |-> b, e |-> e, f |-> SkipWs(s, e + 1)]

\* re.findall(json_pattern, content, re.DOTALL) for the fenced-block pattern
RECURSIVE MarkdownMatches(_, _)
MarkdownMatches(s, p) ==
    IF p > Len(s) THEN <<>>
    ELSE LET m == MdMatchAt(s, p) IN
         IF m.ok THEN <<SubSeq(s, m.b, m.e)>> \o MarkdownMatches(s, m.f + 1)
         ELSE MarkdownMatches(s, p + 1)

\* the (?:\{[^{}]*\}[^{}]*)*\} tail from position i: the position of the brace
\* that ends the match, 0 when the pattern fails
RECURSIVE BraceTail(_, _)
BraceTail(s, i) ==
    LET q == NextBrace(s, i) IN
    IF q > Len(s) THEN 0
    ELSE IF s[q] = "}" THEN q
    ELSE LET r == NextBrace(s, q + 1) IN
         IF r <= Len(s) /\ s[r] = "}" THEN BraceTail(s, r + 1) ELSE 0

\* re.findall(r'\{[^{}]*(?:\{[^{}]*\}[^{}]*)*\}', content, re.DOTALL)
RECURSIVE BraceMatches(_, _)
BraceMatches(s, p) ==
    IF p > Len(s) THEN <<>>
    ELSE IF s[p] /= "{" THEN BraceMatches(s, p + 1)
    ELSE LET e == BraceTail(s, p + 1) IN
         IF e = 0 THEN BraceMatches(s, p + 1)
         ELSE <<SubSeq(s, p, e)>> \o BraceMatches(s, e + 1)

\* the brace-counting loop of _clean_json_content from position i at depth d:
\* the position of the brace that brings the count back to zero, 0 when none does
RECURSIVE MatchingBrace(_, _, _)
MatchingBrace(s, i, d) ==
    IF i > Len(s) THEN 0
    ELSE IF s[i] = "{" THEN MatchingBrace(s, i + 1, d + 1)
    ELSE IF s[i] = "}" THEN (IF d = 1 THEN i ELSE MatchingBrace(s, i + 1, d - 1))
    ELSE MatchingBrace(s, i + 1, d)

\* re.sub(marker + r'.*$', '', s, flags=re.MULTILINE): from the marker to the end
\* of its line (the newline stays)
RECURSIVE RemoveLineComments(_, _)
RemoveLineComments(s, marker) ==
    IF s = <<>> THEN <<>>
    ELSE IF s[1] = marker
         THEN LET n == IndexFrom(s, "\n", 1) IN
              RemoveLineComments(SubSeq(s, n, Len(s)), marker)
         ELSE <<s[1]>> \o RemoveLineComments(Tail(s), marker)

\* re.sub(r'/\*.*?\*/', '', s, flags=re.DOTALL)
RECURSIVE RemoveBlockComments(_)
RemoveBlockComments(s) ==
    IF s = <<>> THEN <<>>
    ELSE IF s[1] = "/*" /\ IndexFrom(s, "*/", 2) <= Len(s)
         THEN RemoveBlockComments(SubSeq(s, IndexFrom(s, "*/", 2) + 1, Len(s)))
         ELSE <<s[1]>> \o RemoveBlockComments(Tail(s))

\* re.sub(r'\s+', ' ', s)
RECURSIVE CollapseWs(_)
CollapseWs(s) ==
    IF s = <<>> THEN <<>>
    ELSE IF s[1] \in WsToks
         THEN <<" ">> \o CollapseWs(SubSeq(s, SkipWs(s, 1), Len(s)))
         ELSE <<s[1]>> \o CollapseWs(Tail(s))

clean_json_content(s) ==
    LET start_idx == IndexFrom(s, "{", 1) IN
    IF start_idx > Len(s) THEN <<>>
    ELSE LET end_idx == MatchingBrace(s, start_idx, 0) IN
         IF end_idx = 0 THEN <<>>
         ELSE LET json_str == SubSeq(s, start_idx, end_idx)
                  a == RemoveLineComments(json_str, "//")
                  b == RemoveBlockComments(a)
                  c == RemoveLineComments(b, "#")
              IN Strip(CollapseWs(c))

\* the first element of a list of candidates that is pure JSON
RECURSIVE FirstPure(_)
FirstPure(ms) ==
    IF ms = <<>> THEN NoText
    ELSE IF is_pure_json(Head(ms)) THEN Found(Head(ms)) ELSE FirstPure(Tail(ms))

\* the first candidate whose cleaned form is non-empty and pure JSON
RECURSIVE FirstCleanedPure(_)
FirstCleanedPure(ms) ==
    IF ms = <<>> THEN NoText
    ELSE LET cleaned == clean_json_content(Head(ms)) IN
         IF cleaned /= <<>> /\ is_pure_json(cleaned) THEN Found(cleaned)
         ELSE FirstCleanedPure(Tail(ms))

-----------------------------------------------------------------------------
(* JSONParser._extract_json, one block of the function per strategy *)

\* what the block named st returns on the stripped text c, NoText when it
\* falls through to the next block
StrategyOut(st, c, md) ==
    CASE st = "pure" -> IF is_pure_json(c) THEN Found(c) ELSE NoText
      [] st = "markdown" -> IF md THEN FirstPure(MarkdownMatches(c, 1)) ELSE NoText
      [] st = "braces" -> FirstPure(BraceMatches(c, 1))
      [] st = "clean" ->
            LET cleaned_json == clean_json_content(c) IN
            IF cleaned_json /= <<>> /\ is_pure_json(cleaned_json)
            THEN Found(cleaned_json) ELSE NoText
      [] st = "lastresort" -> FirstCleanedPure(BraceMatches(c, 1))

\* an order in which the brace scan comes before the fenced blocks (not the program's)
BracesBeforeMarkdown(st) ==
    CASE st = "pure" -> "braces"
      [] st = "braces" -> "markdown"
      [] st = "markdown" -> "clean"
      [] st = "clean" -> "lastresort"
      [] st = "lastresort" -> "raise"

\* the block that follows block st in the function body
NextStrategy(st) ==
    CASE st = "pure" -> "markdown"
      [] st = "markdown" -> "braces"
      [] st = "braces" -> "clean"
      [] st = "clean" -> "lastresort"
      [] st = "lastresort" -> "raise"

\* the whole function: the first block that returns, or ParseError
RECURSIVE ExtractFrom(_, _, _)
ExtractFrom(st, c, md) ==
    IF st = "raise" THEN NoText
    ELSE LET out == StrategyOut(st, c, md) IN
         IF out.found THEN out ELSE ExtractFrom(NextStrategy(st), c, md)

extract_json(c, md) == ExtractFrom("pure", Strip(c), md)

-----------------------------------------------------------------------------
(* Parser base helpers (parse/base.py) *)

IsNumber(v) == v.t \in {"num", "bool"}     \* isinstance(conf, (int, float))

\* float(conf): a JSON true is the int 1
ToFloat(v) == IF v.t = "num" THEN v.n ELSE IF v.b THEN One ELSE 0

extract_confidence(field_data) ==
    IF field_data.t = "obj" /\ "confidence" \in DOMAIN field_data.m
       /\ IsNumber(field_data.m["confidence"])
    THEN ToFloat(field_data.m["confidence"])
    ELSE 0

extract_value(field_data) ==
    IF field_data.t = "obj" /\ "value" \in DOMAIN field_data.m
    THEN field_data.m["value"]
    ELSE field_data

\* a normalisation that keeps the raw number (not the program's)
KeepRaw(confidence) == confidence

normalize_confidence(confidence) == Max(0, Min(One, confidence))

\* str(x) of a decoded JSON value; containers are rendered opaquely
PyStr(v) ==
    CASE v.t = "str" -> v.s
      [] v.t = "num" -> CHOOSE tok \in NumToks : NumVal[tok] = v.n
      [] v.t = "bool" -> "True"
      [] v.t = "null" -> "None"
      [] v.t = "obj" -> "{...}"
      [] v.t = "arr" -> "[...]"

-----------------------------------------------------------------------------
(* JSONParser._convert_to_attributes *)

NoRecord == [none |-> TRUE]

\* `field_name in data`: key lookup on a dict, element test on a list,
\* substring test on a str (the string literals here are single words, so a
\* field name is a substring only of itself)
InData(f, data) ==
    CASE data.t = "obj" -> f \in DOMAIN data.m
      [] data.t = "arr" -> \E i \in 1..Len(data.a) : data.a[i] = JStr(f)
      [] data.t = "str" -> data.s = f
      [] OTHER -> FALSE

\* `field_name in data` raises TypeError on a number, a bool and None;
\* data[field_name] raises TypeError on a list and on a str
ConvertRaises(data, sch) ==
    \/ data.t \in {"num", "bool", "null"}
    \/ /\ data.t \in {"arr", "str"}
       /\ \/ \E i \in 1..Len(sch) : InData(sch[i].name, data)
          \/ InData("notes", data)

IsScalarSchema(fs) == fs.t = "obj" /\ "value" \in DOMAIN fs.m
IsListSchema(fs) == fs.t = "arr" /\ fs.a /= <<>>

\* one element of an array field
ProcessItem(item) ==
    IF item.t = "obj"
    THEN [name |-> extract_value(IF "name" \in DOMAIN item.m THEN item.m["name"] ELSE JStr("")),
          confidence |-> normalize_confidence(extract_confidence(item))]
    ELSE [name |-> JStr(PyStr(item)), confidence |-> 50 * Cent]

ItemConfidences(items) == [i \in 1..Len(items) |-> items[i].confidence]

\* the value and the confidence recorded for one schema field present in data
ConvertField(field_schema, field_data) ==
    IF IsScalarSchema(field_schema)
    THEN [value |-> extract_value(field_data),
          confidence |-> normalize_confidence(extract_confidence(field_data))]
    ELSE IF IsListSchema(field_schema)
    THEN IF field_data.t = "arr"
         THEN LET processed_items == [i \in 1..Len(field_data.a) |-> ProcessItem(field_data.a[i])]
              IN [value |-> processed_items,
                  confidence |->
                     IF processed_items /= <<>>
                     THEN normalize_confidence(
                            SumSeq(ItemConfidences(processed_items)) \div Len(processed_items))
                     ELSE 0]
         ELSE [value |-> <<>>, confidence |-> 0]
    ELSE [value |-> field_data, confidence |-> 50 * Cent]

\* the schema loop: processes sch[i..], acc = [keys, data, confidences]
\* a loop that defaults a schema field missing from the object to null with
\* confidence 0.0 (not the program's)
RECURSIVE DefaultingLoop(_, _, _, _)
DefaultingLoop(sch, i, data, acc) ==
    IF i > Len(sch) THEN acc
    ELSE LET f == sch[i].name
             r == IF InData(f, data) THEN ConvertField(sch[i].schema, data.m[f])
                  ELSE [value |-> JNull, confidence |-> 0]
         IN DefaultingLoop(sch, i + 1, data,
              [keys |-> IF f \in DOMAIN acc.data THEN acc.keys ELSE Append(acc.keys, f),
               data |-> [g \in (DOMAIN acc.data) \cup {f} |->
                            IF g = f THEN r.value ELSE acc.data[g]],
               confidences |-> [g \in (DOMAIN acc.confidences) \cup {f} |->
                            IF g = f THEN r.confidence ELSE acc.confidences[g]]])

\* a loop that records no confidence for a direct value field (not the program's)
RECURSIVE UnscoredDirectLoop(_, _, _, _)
UnscoredDirectLoop(sch, i, data, acc) ==
    IF i > Len(sch) THEN acc
    ELSE LET f == sch[i].name IN
         IF InData(f, data)
         THEN LET r == ConvertField(sch[i].schema, data.m[f])
                  scored == IsScalarSchema(sch[i].schema) \/ IsListSchema(sch[i].schema)
              IN
              UnscoredDirectLoop(sch, i + 1, data,
                [keys |-> IF f \in DOMAIN acc.data THEN acc.keys ELSE Append(acc.keys, f),
                 data |-> [g \in (DOMAIN acc.data) \cup {f} |->
                              IF g = f THEN r.value ELSE acc.data[g]],
                 confidences |->
                    IF scored
                    THEN [g \in (DOMAIN acc.confidences) \cup {f} |->
                              IF g = f THEN r.confidence ELSE acc.confidences[g]]
                    ELSE acc.confidences])
         ELSE UnscoredDirectLoop(sch, i + 1, data, acc)

RECURSIVE ConvertLoop(_, _, _, _)
ConvertLoop(sch, i, data, acc) ==
    IF i > Len(sch) THEN acc
    ELSE LET f == sch[i].name IN
         IF InData(f, data)
         THEN LET r == ConvertField(sch[i].schema, data.m[f]) IN
              ConvertLoop(sch, i + 1, data,
                [keys |-> IF f \in DOMAIN acc.data THEN acc.keys ELSE Append(acc.keys, f),
                 data |-> [g \in (DOMAIN acc.data) \cup {f} |->
                              IF g = f THEN r.value ELSE acc.data[g]],
                 confidences |-> [g \in (DOMAIN acc.confidences) \cup {f} |->
                              IF g = f THEN r.confidence ELSE acc.confidences[g]]])
         ELSE ConvertLoop(sch, i + 1, data, acc)

\* a tagging whose boundaries 0.8 and 0.5 belong to the upper tag (not the program's)
QualityTagInclusive(confidences) ==
    LET n == Cardinality(DOMAIN confidences)
        avg_confidence == IF n > 0 THEN SumFun(confidences, DOMAIN confidences) \div n ELSE 0
    IN IF avg_confidence >= 80 * Cent THEN "high_confidence"
       ELSE IF avg_confidence >= 50 * Cent THEN "medium_confidence"
       ELSE "low_confidence"

\* the quality tag chosen from the mean of the confidences
QualityTag(confidences) ==
    LET n == Cardinality(DOMAIN confidences)
        avg_confidence == IF n > 0 THEN SumFun(confidences, DOMAIN confidences) \div n ELSE 0
    IN IF avg_confidence > 80 * Cent THEN "high_confidence"
       ELSE IF avg_confidence > 50 * Cent THEN "medium_confidence"
       ELSE "low_confidence"

\* requires ~ConvertRaises(data, sch)
convert_to_attributes(data, sch) ==
    LET acc == ConvertLoop(sch, 1, data, [keys |-> <<>>, data |-> <<>>, confidences |-> <<>>])
    IN [data |-> acc.data,
        keys |-> acc.keys,
        confidences |-> acc.confidences,
        tags |-> {QualityTag(acc.confidences)},
        notes |-> IF InData("notes", data) THEN PyStr(data.m["notes"]) ELSE ""]

-----------------------------------------------------------------------------
(* JSONParser.parse / can_parse, ParserFactory, ParseService *)

ParseError == [ok |-> FALSE, attributes |-> NoRecord]

\* JSONParser.parse: every exception leaves as ParseError
parse(c, sch, md) ==
    LET json_data == extract_json(c, md) IN
    IF ~json_data.found THEN ParseError
    ELSE LET parsed_data == Loads(json_data.text) IN
         IF ~parsed_data.ok \/ ConvertRaises(parsed_data.v, sch) THEN ParseError
         ELSE [ok |-> TRUE, attributes |-> convert_to_attributes(parsed_data.v, sch)]

has_json_in_markdown(c) == FirstPure(MarkdownMatches(c, 1)).found

\* an acceptance test that takes any opening brace for JSON (not the program's)
AnyOpeningBrace(c, md) == IndexFrom(c, "{", 1) <= Len(c)

can_parse(c, md) ==
    LET stripped == Strip(c) IN
    is_pure_json(stripped) \/ (md /\ has_json_in_markdown(stripped))

\* ParseService.parse_response -> ParserFactory.parse_response -> get_parser:
\* the single registered JSONParser is used only when its can_parse accepts
parse_response(c, sch, md) ==
    IF can_parse(c, md) THEN parse(c, sch, md) ELSE ParseError

-----------------------------------------------------------------------------
(* Config.get_threshold and PipelineService._make_decision *)

DEFAULT_CONFIDENCE_THRESHOLD == 75 * Cent

\* dict.get(key, default)
DictGet(d, key, default) == IF key \in DOMAIN d THEN d[key] ELSE default

\* a lookup that ignores the per-field entries (not the program's)
DefaultOnly(th, field_name) == DictGet(th, "default", DEFAULT_CONFIDENCE_THRESHOLD)

get_threshold(th, field_name) ==
    DictGet(th, field_name, DictGet(th, "default", DEFAULT_CONFIDENCE_THRESHOLD))

NoDecision == [none |-> TRUE]

\* the loop over attributes.data.items(): processes keys[i..]
RECURSIVE DecideLoop(_, _, _, _)
DecideLoop(attrs, th, i, acc) ==
    IF i > Len(attrs.keys) THEN acc
    ELSE LET field_name == attrs.keys[i] IN
         IF field_name \in DOMAIN attrs.confidences
         THEN LET confidence == attrs.confidences[field_name]
                  threshold == get_threshold(th, field_name)
                  flag == IF confidence >= threshold THEN "accepted" ELSE "low_confidence"
              IN DecideLoop(attrs, th, i + 1,
                   [field_flags |-> [g \in (DOMAIN acc.field_flags) \cup {field_name} |->
                                        IF g = field_name THEN flag ELSE acc.field_flags[g]],
                    reasons |-> IF confidence >= threshold THEN acc.reasons
                                ELSE Append(acc.reasons,
                                       [about |-> field_name, confidence |-> confidence,
                                        threshold |-> threshold]),
                    overall_confidence |-> acc.overall_confidence + confidence,
                    field_count |-> acc.field_count + 1])
         ELSE DecideLoop(attrs, th, i + 1, acc)

\* an acceptance test that a low_confidence flag vetoes (not the program's)
AcceptsUnlessFlagged(overall_confidence, field_flags, th) ==
    /\ overall_confidence >= DictGet(th, "default", DEFAULT_CONFIDENCE_THRESHOLD)
    /\ \A f \in DOMAIN field_flags : field_flags[f] = "accepted"

\* an acceptance test that requires the aggregate to exceed the threshold (not the program's)
AcceptsAbove(overall_confidence, field_flags, th) ==
    overall_confidence > DictGet(th, "default", DEFAULT_CONFIDENCE_THRESHOLD)

\* the overall-acceptance test
Accepts(overall_confidence, field_flags, th) ==
    overall_confidence >= get_threshold(th, "default")

\* an aggregate that is the sum, never divided (not the program's)
SumOnly(total, field_count) == total

\* the aggregate: the sum divided by the number of fields counted
Aggregate(total, field_count) ==
    IF field_count > 0 THEN total \div field_count ELSE total

\* reasons that put the overall entry first (not the program's)
OverallReasonFirst(accepted, reasons, overall_confidence, th) ==
    IF accepted THEN reasons
    ELSE <<[about |-> "overall", confidence |-> overall_confidence,
            threshold |-> get_threshold(th, "default")]>> \o reasons

\* if not accepted: reasons.append("Overall confidence ... below default threshold ...")
OverallReason(accepted, reasons, overall_confidence, th) ==
    IF accepted THEN reasons
    ELSE Append(reasons,
           [about |-> "overall", confidence |-> overall_confidence,
            threshold |-> get_threshold(th, "default")])

make_decision(attrs, th) ==
    LET acc == DecideLoop(attrs, th, 1,
                 [field_flags |-> <<>>, reasons |-> <<>>,
                  overall_confidence |-> 0, field_count |-> 0])
        overall_confidence == Aggregate(acc.overall_confidence, acc.field_count)
        accepted == Accepts(overall_confidence, acc.field_flags, th)
    IN [accepted |-> accepted,
        field_flags |-> acc.field_flags,
        reasons |-> OverallReason(accepted, acc.reasons, overall_confidence, th),
        confidence_score |-> overall_confidence]

-----------------------------------------------------------------------------
(* Inputs: schemas, threshold policies and response texts *)

ScalarSchema == JObj("value" :> JNull @@ "confidence" :> JNum(0))
ListSchema == JArr(<<JObj("name" :> JStr("") @@ "confidence" :> JNum(0))>>)
FreeformSchema == JStr("")

FullSchema == <<[name |-> "brand", schema |-> ScalarSchema],
                [name |-> "primary_colors", schema |-> ListSchema],
                [name |-> "notes", schema |-> FreeformSchema]>>

Schemas == {FullSchema,
            <<[name |-> "primary_colors", schema |-> ListSchema],
              [name |-> "brand", schema |-> ScalarSchema]>>,
            <<[name |-> "notes", schema |-> FreeformSchema],
              [name |-> "brand", schema |-> ScalarSchema]>>}

\* DEFAULT_FIELD_THRESHOLDS restricted to the fields of the schemas above
DEFAULT_FIELD_THRESHOLDS ==
    ("default" :> 75 * Cent @@ "brand" :> 80 * Cent @@ "primary_colors" :> 65 * Cent)

Policies == {DEFAULT_FIELD_THRESHOLDS,
             ("default" :> 75 * Cent),
             ("default" :> 50 * Cent @@ "brand" :> 90 * Cent),
             ("brand" :> 80 * Cent),
             ("default" :> 0)}

RECURSIVE Join(_, _)
Join(parts, sep) ==
    IF parts = <<>> THEN <<>>
    ELSE IF Len(parts) = 1 THEN parts[1]
    ELSE parts[1] \o sep \o Join(Tail(parts), sep)

\* what a response may give for a scalar field
BrandValues ==
    {<<"'Nike'">>, <<"{", "value:", "'Nike'", "}">>,
     <<"{", "confidence:", "0.9", "}">>,
     <<"{", "value:", "'Nike'", ",", "confidence:", "true", "}">>,
     <<"{", "value:", "'Nike'", ",", "confidence:", "'red'", "}">>}
    \cup {<<"{", "value:", "'Nike'", ",", "confidence:", c, "}">> : c \in NumToks}

\* what a response may give as one element of a list field
ItemValues == <<
    <<"'red'">>,
    <<"{", "name:", "'red'", ",", "confidence:", "0.4", "}">>,
    <<"{", "name:", "'red'", ",", "confidence:", "0.9", "}">>,
    <<"{", "name:", "'red'", ",", "confidence:", "1.5", "}">>,
    <<"{", "name:", "'red'", ",", "confidence:", "true", "}">> >>

\* lists of at most MaxItems elements (one per multiset of elements)
ItemChoices ==
    UNION {{s \in [1..n -> 1..Len(ItemValues)] : \A i \in 1..(n - 1) : s[i] <= s[i + 1]}
           : n \in 0..MaxItems}

ListValues ==
    {<<"'red'">>}
    \cup {<<"[">> \o Join([i \in 1..Len(s) |-> ItemValues[s[i]]], <<",">>) \o <<"]">>
          : s \in ItemChoices}

NotesValues == {<<"'red'">>}

\* a member is absent (<<>>) or "key": value
Members(key, values) == {<<>>} \cup {<<key>> \o v : v \in values}

RECURSIVE NonEmpty(_)
NonEmpty(parts) ==
    IF parts = <<>> THEN <<>>
    ELSE IF Head(parts) = <<>> THEN NonEmpty(Tail(parts))
    ELSE <<Head(parts)>> \o NonEmpty(Tail(parts))

Documents ==
    {<<"{">> \o Join(NonEmpty(<<b, c, n>>), <<",">>) \o <<"}">> :
        b \in Members("brand:", BrandValues),
        c \in Members("primary_colors:", ListValues),
        n \in Members("notes:", NotesValues)}

\* texts with no usable object: empty, blank, prose, a bare scalar, an array,
\* an object with no schema field, an object cut short
OtherTexts ==
    {<<>>, <<"\n">>, <<"tx">>, <<"0.9">>, <<"'red'">>, <<"null">>, <<"[", "]">>,
     <<"{", "other:", "0.9", "}">>, <<"{", "brand:", "'Nike'">>,
     <<"tx", "{", "brand:", "{", "value:", "'Nike'", ",", "confidence:", "0.9", "}", "}">>,
     <<"{", "brand:", "{", "value:", "'Nike'", ",", "confidence:", "1.5", "}", ",",
       "#", "tx", "\n", "notes:", "'red'", "}">>}

\* a document as the whole response, or in a fenced block after some prose
ParseTexts ==
    Documents
    \cup {<<"tx", "FENCE", "json", "\n">> \o d \o <<"\n", "FENCE">> : d \in Documents}
    \cup OtherTexts

-----------------------------------------------------------------------------
(* Specification Spec: one response parsed and decided (analyze_item steps 5, 6) *)

None == "None"

\* no retrieve_attributes call has returned yet
NoRetrieval ==
    [storage_id |-> [item_id |-> None, data_type |-> None, timestamp |-> 0],
     attributes |-> NoRecord]

\* no storage call has been made yet
NoCall == [op |-> "none"]

\* no PipelineService is being constructed
NoSetup == [pc |-> "idle"]

\* no exception
NoError == [type |-> "none"]

\* no ParserFactory has been created
NoFactory == [parsers |-> <<>>]

\* no ParquetStorage has been created
NoParquet == [file |-> <<>>]

Init ==
    /\ parquet = NoParquet
    /\ factory = NoFactory
    /\ setup = NoSetup
    /\ last_call = NoCall
    /\ content \in ParseTexts
    /\ markdown = TRUE /\ strict_json = FALSE
    /\ schema \in Schemas
    /\ thresholds \in Policies
    /\ ppc \in {"parse", "parse_response"}
    /\ attributes = NoRecord
    /\ decision = NoDecision
    /\ xpc = "idle" /\ xtried = <<>> /\ xresult = NoText /\ can_parse_result = {}
    /\ retrieved = NoRetrieval /\ calls = <<>>
    /\ paths = <<>> /\ idx = 0 /\ bpc = "idle" /\ item_id = None
    /\ raw_response = <<>> /\ storage = <<>> /\ storage_ids = <<>> /\ results = <<>>

Parsed(r) ==
    /\ attributes' = r.attributes
    /\ ppc' = IF r.ok THEN "decide" ELSE "parse_error"
    /\ decision' = decision
    /\ UNCHANGED <<schema, thresholds, extractVars, storeVars, callVars, pipelineVars, lastVars, setupVars, factoryVars, parquetVars>>

\* JSONParser.parse called on the response
ParseDirect ==
    /\ ppc = "parse"
    /\ Parsed(parse(content, schema, markdown))

\* ParseService.parse_response called on the response
ParseViaService ==
    /\ ppc = "parse_response"
    /\ Parsed(parse_response(content, schema, markdown))

\* PipelineService._make_decision on the parsed record
Decide ==
    /\ ppc = "decide"
    /\ decision' = make_decision(attributes, thresholds)
    /\ ppc' = "done"
    /\ UNCHANGED <<attributes, schema, thresholds, extractVars, storeVars, callVars, pipelineVars, lastVars, setupVars, factoryVars, parquetVars>>

Next == ParseDirect \/ ParseViaService \/ Decide

Spec == Init /\ [][Next]_vars

-----------------------------------------------------------------------------
(* Properties of the decision step and of the parsed record, under Spec *)

HasRecord == ppc \in {"decide", "done"}
Decided == ppc = "done"
HasDefault == "default" \in DOMAIN thresholds

Confs == attributes.confidences
ConfFields == DOMAIN attributes.confidences
ConfSum == SumFun(attributes.confidences, DOMAIN attributes.confidences)
ConfCount == Cardinality(DOMAIN attributes.confidences)
AllFlagsAccepted == \A f \in DOMAIN decision.field_flags : decision.field_flags[f] = "accepted"

\* T(f): policy[f] if f is listed in the policy, policy["default"] if it is not
PolicyThreshold(f) == IF f \in DOMAIN thresholds THEN thresholds[f] ELSE thresholds["default"]

\* C1: the decision is accepted exactly when its confidence_score is at least
\* policy["default"]; the field flags take no part in it.
C1_AcceptedIffScoreAtLeastDefault ==
    (Decided /\ HasDefault) =>
        (decision.accepted <=> decision.confidence_score >= thresholds["default"])

\* a record accepted overall although one of its fields is flagged low_confidence
C1_Witness ==
    /\ Decided /\ HasDefault
    /\ decision.accepted
    /\ \E f \in DOMAIN decision.field_flags : decision.field_flags[f] = "low_confidence"

\* C2: field_flags has an entry for exactly the fields of record.confidences, and
\* the entry of f is "accepted" iff confidences[f] >= T(f), "low_confidence" otherwise.
C2_FieldFlagsFollowThresholds ==
    Decided =>
        /\ DOMAIN decision.field_flags = ConfFields
        /\ \A f \in ConfFields :
              (f \in DOMAIN thresholds \/ HasDefault) =>
                 decision.field_flags[f] =
                    IF Confs[f] >= PolicyThreshold(f) THEN "accepted" ELSE "low_confidence"

\* a listed field accepted on its own threshold although its confidence is below
\* the default, next to an unlisted field flagged on the default
C2_Witness ==
    /\ Decided /\ HasDefault
    /\ \E f, g \in ConfFields :
          /\ f \in DOMAIN thresholds /\ g \notin DOMAIN thresholds
          /\ thresholds[f] <= Confs[f] /\ Confs[f] < thresholds["default"]
          /\ decision.field_flags[f] = "accepted"
          /\ decision.field_flags[g] = "low_confidence"

RawData == Loads(extract_json(content, markdown).text).v

\* field f holds an object in the response with a numeric confidence
HasRawConfidence(f) ==
    /\ f \in DOMAIN RawData.m
    /\ RawData.m[f].t = "obj"
    /\ "confidence" \in DOMAIN RawData.m[f].m
    /\ RawData.m[f].m["confidence"].t = "num"

RawConfidence(f) == RawData.m[f].m["confidence"].n

SchemaIndices == DOMAIN schema
ScalarFields == {schema[i].name : i \in {j \in SchemaIndices : IsScalarSchema(schema[j].schema)}}
ListFields == {schema[i].name : i \in {j \in SchemaIndices : IsListSchema(schema[j].schema)}}

\* C4: every value of confidences of a parsed record lies in [0.0, 1.0]; a raw
\* confidence of a scalar field below 0 is stored as 0.0 and one above 1 as 1.0.
C4_ConfidencesClamped ==
    HasRecord =>
        \A f \in ConfFields :
            /\ 0 <= Confs[f] /\ Confs[f] <= One
            /\ (f \in ScalarFields /\ HasRawConfidence(f)) =>
                  /\ RawConfidence(f) < 0 => Confs[f] = 0
                  /\ RawConfidence(f) > One => Confs[f] = One
                  /\ (0 <= RawConfidence(f) /\ RawConfidence(f) <= One)
                        => Confs[f] = RawConfidence(f)

\* a record parsed from a response whose scalar confidence was below 0
C4_Witness ==
    /\ HasRecord
    /\ \E f \in ConfFields \cap ScalarFields :
          HasRawConfidence(f) /\ RawConfidence(f) < 0 /\ Confs[f] = 0

ConfidenceTags == {"high_confidence", "medium_confidence", "low_confidence"}

NoThresholdBelowDefault ==
    /\ HasDefault
    /\ \A f \in ConfFields : PolicyThreshold(f) >= thresholds["default"]

C7_ConfidencesOnlyForScalarAndListFields ==
    HasRecord =>
        ConfFields = (DOMAIN attributes.data) \cap (ScalarFields \cup ListFields)

-----------------------------------------------------------------------------
(* Specification SpecPipeline: PipelineService.analyze_batch / analyze_item *)

\* the input paths handed to analyze_batch; "gone" does not exist on disk
PathNames == {"a", "b", "gone"}

RECURSIVE SeqsUpTo(_, _)
SeqsUpTo(S, n) ==
    IF n = 0 THEN {<<>>}
    ELSE LET shorter == SeqsUpTo(S, n - 1)
         IN shorter \cup {Append(s, x) : s \in {q \in shorter : Len(q) = n - 1}, x \in S}

\* FileSystemIngestor._generate_item_id: "item_" and a hash of the absolute path
generate_item_id(path) == "item_" \o path

\* what the provider may answer
ProviderTexts ==
    {<<"{", "brand:", "{", "value:", "'Nike'", ",", "confidence:", "0.9", "}", "}">>,
     <<"{", "brand:", "{", "value:", "'Nike'", ",", "confidence:", "0.4", "}", ",",
       "notes:", "'red'", "}">>,
     <<"tx", "FENCE", "json", "\n", "{", "primary_colors:", "[", "'red'", "]", "}", "\n", "FENCE">>,
     <<"tx">>}

InitPipeline ==
    /\ parquet = NoParquet
    /\ factory = NoFactory
    /\ setup = NoSetup
    /\ last_call = NoCall
    /\ paths \in SeqsUpTo(PathNames, MaxPaths)
    /\ schema = FullSchema
    /\ thresholds \in {DEFAULT_FIELD_THRESHOLDS, ("default" :> 50 * Cent)}
    /\ markdown = TRUE /\ strict_json = FALSE
    /\ idx = 0 /\ bpc = "for" /\ results = <<>> /\ storage = <<>>
    /\ item_id = None /\ raw_response = None /\ storage_ids = <<>>
    /\ attributes = NoRecord /\ decision = NoDecision
    /\ content = <<>> /\ ppc = "idle"
    /\ xpc = "idle" /\ xtried = <<>> /\ xresult = NoText /\ can_parse_result = {}
    /\ retrieved = NoRetrieval /\ calls = <<>>

\* the PipelineResult of the item being analysed; input_path records which call
\* of analyze_item made it, error which step raised
PipelineResult(success, error) ==
    [item_id |-> IF item_id = None THEN "unknown" ELSE item_id,
     success |-> success,
     error |-> error,
     input_path |-> paths[idx]]

\* an aborting loop: the batch returns at the first failed item (not the program's)
ReturnOnFailure(success) == IF success THEN "for" ELSE "returned"

\* analyze_batch after analyze_item returned: append the result, go on with the loop
AfterItem(success) == "for"

\* the except clause of analyze_item: a failed result, nothing else is undone
Raise(step) ==
    /\ results' = Append(results, PipelineResult(FALSE, step))
    /\ bpc' = AfterItem(FALSE)

\* analyze_batch: the next path of the for loop enters analyze_item
AnalyzeItem ==
    /\ bpc = "for" /\ idx < Len(paths)
    /\ idx' = idx + 1
    /\ bpc' = "ingest"
    /\ item_id' = None /\ raw_response' = None /\ storage_ids' = <<>>
    /\ attributes' = NoRecord /\ decision' = NoDecision
    /\ UNCHANGED <<paths, storage, results, schema, thresholds, ppc, extractVars, storeVars, callVars, lastVars, setupVars, factoryVars, parquetVars>>

\* analyze_batch: the loop is exhausted, the results are returned
ReturnResults ==
    /\ bpc = "for" /\ idx = Len(paths)
    /\ bpc' = "returned"
    /\ UNCHANGED <<paths, idx, item_id, raw_response, storage, storage_ids, results,
                   parseVars, extractVars, storeVars, callVars, lastVars, setupVars, factoryVars, parquetVars>>

\* step 1: FileSystemIngestor.load raises for a path that does not exist
Ingest ==
    /\ bpc = "ingest"
    /\ IF paths[idx] = "gone"
       THEN Raise("ingest") /\ UNCHANGED item_id
       ELSE /\ item_id' = generate_item_id(paths[idx])
            /\ bpc' = "load_schema"
            /\ UNCHANGED results
    /\ UNCHANGED <<paths, idx, raw_response, storage, storage_ids, parseVars, extractVars, storeVars, callVars, lastVars, setupVars, factoryVars, parquetVars>>

\* step 2: JinjaPromptBuilder.load_schema reads the schema file or raises
LoadSchema ==
    /\ bpc = "load_schema"
    /\ \/ bpc' = "build_request" /\ UNCHANGED results
       \/ Raise("load_schema")
    /\ UNCHANGED <<paths, idx, item_id, raw_response, storage, storage_ids, parseVars,
                   extractVars, storeVars, callVars, lastVars, setupVars, factoryVars, parquetVars>>

\* step 3: build_request renders the prompt or raises
BuildRequest ==
    /\ bpc = "build_request"
    /\ \/ bpc' = "predict" /\ UNCHANGED results
       \/ Raise("build_request")
    /\ UNCHANGED <<paths, idx, item_id, raw_response, storage, storage_ids, parseVars,
                   extractVars, storeVars, callVars, lastVars, setupVars, factoryVars, parquetVars>>

\* step 4: provider.predict answers some text or raises
Predict ==
    /\ bpc = "predict"
    /\ \/ \E c \in ProviderTexts :
             /\ raw_response' = [content |-> c]
             /\ bpc' = "parse"
             /\ UNCHANGED results
       \/ Raise("predict") /\ UNCHANGED raw_response
    /\ UNCHANGED <<paths, idx, item_id, storage, storage_ids, parseVars, extractVars, storeVars, callVars, lastVars, setupVars, factoryVars, parquetVars>>

\* step 5: ParseService.parse_response; a ParseError fails the item
ParseResponse ==
    /\ bpc = "parse"
    /\ LET r == parse_response(raw_response.content, schema, markdown) IN
       IF r.ok
       THEN attributes' = r.attributes /\ bpc' = "decide" /\ UNCHANGED results
       ELSE Raise("parse") /\ UNCHANGED attributes
    /\ UNCHANGED <<paths, idx, item_id, raw_response, storage, storage_ids,
                   schema, thresholds, ppc, decision, extractVars, storeVars, callVars, lastVars, setupVars, factoryVars, parquetVars>>

\* step 6: _make_decision
MakeDecision ==
    /\ bpc = "decide"
    /\ decision' = make_decision(attributes, thresholds)
    /\ bpc' = "store_attributes"
    /\ UNCHANGED <<paths, idx, item_id, raw_response, storage, storage_ids, results,
                   schema, thresholds, ppc, attributes, extractVars, storeVars, callVars, lastVars, setupVars, factoryVars, parquetVars>>

\* one store_* call of _store_results: the backend writes a new timestamped
\* entry and returns its id, or raises StorageError and writes nothing
Store(kind, next) ==
    \/ /\ storage' = Append(storage, [kind |-> kind, item_id |-> item_id, call |-> idx])
       /\ storage_ids' = [k \in (DOMAIN storage_ids) \cup {kind} |->
                            IF k = kind THEN <<item_id, kind, Len(storage) + 1>>
                            ELSE storage_ids[k]]
       /\ IF next = "return"
          THEN /\ results' = Append(results, PipelineResult(TRUE, None))
               /\ bpc' = AfterItem(TRUE)
          ELSE bpc' = next /\ UNCHANGED results
    \/ /\ Raise(kind)
       /\ UNCHANGED <<storage, storage_ids, lastVars, setupVars, factoryVars, parquetVars>>

\* step 7, _store_results
StoreAttributes ==
    /\ bpc = "store_attributes"
    /\ Store("attributes", "store_raw_response")
    /\ UNCHANGED <<paths, idx, item_id, raw_response, parseVars, extractVars, storeVars, callVars, lastVars, setupVars, factoryVars, parquetVars>>

StoreRawResponse ==
    /\ bpc = "store_raw_response"
    /\ Store("raw_response", "store_lineage")
    /\ UNCHANGED <<paths, idx, item_id, raw_response, parseVars, extractVars, storeVars, callVars, lastVars, setupVars, factoryVars, parquetVars>>

StoreLineage ==
    /\ bpc = "store_lineage"
    /\ Store("lineage", "return")
    /\ UNCHANGED <<paths, idx, item_id, raw_response, parseVars, extractVars, storeVars, callVars, lastVars, setupVars, factoryVars, parquetVars>>

NextPipeline ==
    \/ AnalyzeItem \/ ReturnResults
    \/ Ingest \/ LoadSchema \/ BuildRequest \/ Predict \/ ParseResponse \/ MakeDecision
    \/ StoreAttributes \/ StoreRawResponse \/ StoreLineage

SpecPipeline == InitPipeline /\ [][NextPipeline]_vars

\* C8 as stated: when analyze_item returned a failed result, the storage backend
\* holds no attribute record written by that call, whichever step failed.
C8_FailedItemLeavesNoAttributeRecord ==
    \A i \in DOMAIN results :
        ~results[i].success =>
            ~\E k \in DOMAIN storage :
                storage[k].kind = "attributes" /\ storage[k].call = i

\* C9: analyze_batch over n paths returns exactly n results, the i-th being the
\* result of analyze_item on the i-th path, whatever items failed before it.
C9_BatchReturnsOneResultPerPath ==
    /\ Len(results) <= Len(paths)
    /\ \A i \in DOMAIN results : results[i].input_path = paths[i]
    /\ bpc = "returned" => Len(results) = Len(paths)

\* a returned batch whose first item failed and whose second went through
C9_Witness ==
    /\ bpc = "returned"
    /\ Len(paths) >= 2
    /\ ~results[1].success
    /\ results[2].success

-----------------------------------------------------------------------------
(* Specification SpecExtract: JSONParser._extract_json, one step per strategy *)

Fragments ==
    {<<"tx">>, <<"\n">>, <<"}">>,
     <<"FENCE", "json", "\n">>, <<"\n", "FENCE">>,
     <<"{", "brand:", "'Nike'", "}">>,
     <<"{", "brand:", "{", "value:", "{", "other:", "0.9", "}", "}", "}">>,
     <<"{", "//", "tx", "\n", "brand:", "'Nike'", "}">>,
     <<"{", "brand:">>}

RECURSIVE Flatten(_)
Flatten(parts) == IF parts = <<>> THEN <<>> ELSE Head(parts) \o Flatten(Tail(parts))

\* responses made of at most MaxSegs fragments
ExtractTexts == {Flatten(parts) : parts \in SeqsUpTo(Fragments, MaxSegs)}

InitExtract ==
    /\ parquet = NoParquet
    /\ factory = NoFactory
    /\ setup = NoSetup
    /\ last_call = NoCall
    /\ content \in ExtractTexts
    /\ markdown \in BOOLEAN /\ strict_json \in BOOLEAN
    /\ xpc = "pure" /\ xtried = <<>> /\ xresult = NoText /\ can_parse_result = {}
    /\ retrieved = NoRetrieval /\ calls = <<>>
    /\ schema = FullSchema /\ thresholds = DEFAULT_FIELD_THRESHOLDS /\ ppc = "idle"
    /\ attributes = NoRecord /\ decision = NoDecision
    /\ paths = <<>> /\ idx = 0 /\ bpc = "idle" /\ item_id = None
    /\ raw_response = None /\ storage = <<>> /\ storage_ids = <<>> /\ results = <<>>

\* the block of _extract_json named st runs on content.strip(): it returns its
\* candidate, or control falls through to the next block
Try(st) ==
    /\ xtried' = Append(xtried, st)
    /\ LET out == StrategyOut(st, Strip(content), markdown) IN
       IF out.found
       THEN xresult' = out /\ xpc' = "returned"
       ELSE xresult' = xresult /\ xpc' = NextStrategy(st)
    /\ UNCHANGED <<content, markdown, strict_json, can_parse_result, parseVars, pipelineVars, storeVars, callVars, lastVars, setupVars, factoryVars, parquetVars>>

\* JSONParser.can_parse called on the response: it answers and assigns nothing
CanParse ==
    /\ can_parse_result' = can_parse_result \cup {can_parse(content, markdown)}
    /\ UNCHANGED <<content, markdown, strict_json, xpc, xtried, xresult, parseVars,
                   pipelineVars, storeVars, callVars, lastVars, setupVars, factoryVars, parquetVars>>

TryPure ==
    /\ xpc = "pure"
    /\ Try("pure")

TryMarkdown ==
    /\ xpc = "markdown"
    /\ Try("markdown")

TryBraces ==
    /\ xpc = "braces"
    /\ Try("braces")

TryClean ==
    /\ xpc = "clean"
    /\ Try("clean")

TryLastResort ==
    /\ xpc = "lastresort"
    /\ Try("lastresort")

NextExtract ==
    \/ TryPure \/ TryMarkdown \/ TryBraces \/ TryClean \/ TryLastResort
    \/ CanParse

SpecExtract == InitExtract /\ [][NextExtract]_vars

\* the order in which the strategies are to be tried
StrategyOrder == <<"pure", "markdown", "braces", "clean", "lastresort">>

\* strategy number k yields parseable JSON on the response
Yields(k) == StrategyOut(StrategyOrder[k], Strip(content), markdown).found

\* C10: the strategies are tried in the fixed order; extraction returns the
\* output of the first one that yields parseable JSON, and raises the
\* no-JSON-found error iff none of them does.
C10_FirstSuccessfulStrategyWins ==
    /\ Len(xtried) <= Len(StrategyOrder)
    /\ \A k \in DOMAIN xtried : xtried[k] = StrategyOrder[k]
    /\ xpc = "returned" =>
          /\ Yields(Len(xtried))
          /\ \A k \in 1..(Len(xtried) - 1) : ~Yields(k)
          /\ xresult = StrategyOut(StrategyOrder[Len(xtried)], Strip(content), markdown)
    /\ xpc = "raise" <=>
          (Len(xtried) = Len(StrategyOrder) /\ \A k \in DOMAIN StrategyOrder : ~Yields(k))

\* the fenced block wins although the brace scan, tried later, would have
\* returned a different candidate
C10_Witness ==
    /\ xpc = "returned"
    /\ xtried = <<"pure", "markdown">>
    /\ Yields(3)
    /\ StrategyOut("braces", Strip(content), markdown) /= xresult

\* C11: a text that can_parse accepts is a text on which extraction succeeds,
\* and a can_parse call changes neither the response nor the parser.
C11_CanParseImpliesExtractSucceeds ==
    /\ [](TRUE \in can_parse_result =>
            /\ extract_json(content, markdown).found
            /\ xpc /= "raise")
    /\ [][can_parse_result' /= can_parse_result =>
            UNCHANGED <<content, markdown, xpc, xtried, xresult>>]_vars

\* can_parse accepted a fenced response and extraction returned the fenced block
C11_Witness ==
    /\ TRUE \in can_parse_result
    /\ xpc = "returned"
    /\ xtried = <<"pure", "markdown">>

\* the response is empty or holds whitespace only
IsBlank(s) == \A i \in DOMAIN s : s[i] \in WsToks

\* C12: on an empty or whitespace-only response can_parse answers false and
\* extraction fails, and parsing, directly or through the service, ends in a
\* parse error with no record.
C12_BlankTextFailsToParse ==
    IsBlank(content) =>
        /\ ~can_parse(content, markdown)
        /\ ~extract_json(content, markdown).found
        /\ ppc \in {"parse", "parse_response", "parse_error"}
        /\ attributes = NoRecord

\* a whitespace-only response after the parse call raised
C12_Witness ==
    /\ content /= <<>>
    /\ IsBlank(content)
    /\ ppc = "parse_error"

\* what extraction returns on the response, and its decoding
Extracted == extract_json(content, markdown)
Decoded == Loads(Extracted.text)
SchemaNames == {schema[i].name : i \in DOMAIN schema}

\* C13 as stated: a response whose JSON object holds none of the schema's
\* fields is a parse failure, no record is returned for it.
C13_NoSchemaFieldIsParseFailure ==
    (/\ Extracted.found /\ Decoded.ok
     /\ Decoded.v.t = "obj"
     /\ SchemaNames \cap DOMAIN Decoded.v.m = {}) => ~HasRecord

\* C14 as stated: a response whose top-level JSON value is not an object never
\* yields a record, whatever the schema.
C14_NonObjectNeverYieldsRecord ==
    (Extracted.found /\ Decoded.ok /\ Decoded.v.t /= "obj") => ~HasRecord

\* the clamp of the claims: below 0 is 0, above 1 is 1
Clamped(x) == IF x < 0 THEN 0 ELSE IF x > One THEN One ELSE x

\* the confidence an object carries: its clamped 'confidence' member when that
\* is a JSON number, 0.0 when it is absent or not a number
ObjectConfidence(v) ==
    IF "confidence" \in DOMAIN v.m /\ v.m["confidence"].t = "num"
    THEN Clamped(v.m["confidence"].n) ELSE 0

\* C15 as stated: for a scalar field present in the object, an object value
\* with a 'value' key gives that 'value' and its clamped numeric 'confidence'
\* (0.0 when absent or non-numeric); any other value is taken whole with
\* confidence 0.0.
C15_ScalarFieldRule ==
    (HasRecord /\ Decoded.v.t = "obj") =>
        \A f \in ScalarFields \cap DOMAIN Decoded.v.m :
            LET v == Decoded.v.m[f] IN
            IF v.t = "obj" /\ "value" \in DOMAIN v.m
            THEN /\ attributes.data[f] = v.m["value"]
                 /\ Confs[f] = ObjectConfidence(v)
            ELSE /\ attributes.data[f] = v
                 /\ Confs[f] = 0

\* what one element of a list contributes according to the claims
ItemContribution(item) == IF item.t = "obj" THEN ObjectConfidence(item) ELSE 50 * Cent

RECURSIVE SumContributions(_)
SumContributions(items) ==
    IF items = <<>> THEN 0 ELSE ItemContribution(Head(items)) + SumContributions(Tail(items))

\* C16 as stated: for a list field present in the object the confidence is the
\* mean of the item contributions (an object item its clamped numeric
\* 'confidence', 0.0 when absent or non-numeric; a bare item 0.5); an empty list
\* and a value that is not a list give 0.0, the latter with an empty list as value.
C16_ListFieldRule ==
    (HasRecord /\ Decoded.v.t = "obj") =>
        \A f \in ListFields \cap DOMAIN Decoded.v.m :
            LET v == Decoded.v.m[f] IN
            IF v.t /= "arr" THEN attributes.data[f] = <<>> /\ Confs[f] = 0
            ELSE IF v.a = <<>> THEN Confs[f] = 0
            ELSE Confs[f] * Len(v.a) = SumContributions(v.a)

\* the keys of the object the response carried
JsonKeys == IF Decoded.v.t = "obj" THEN DOMAIN Decoded.v.m ELSE {}

\* C17: the fields of a parsed record are among the fields both declared in
\* the schema and present in the object; a schema field missing from the
\* object is in neither fields nor confidences, an undeclared key is never a field.
C17_FieldsWithinSchemaAndJson ==
    HasRecord =>
        /\ DOMAIN attributes.data \subseteq SchemaNames \cap JsonKeys
        /\ ConfFields \subseteq SchemaNames \cap JsonKeys
        /\ \A i \in DOMAIN attributes.keys : attributes.keys[i] \in SchemaNames \cap JsonKeys

\* a record parsed from an object that lacks a schema field and carries an
\* undeclared key next to a declared one
C17_Witness ==
    /\ HasRecord
    /\ SchemaNames \ JsonKeys /= {}
    /\ JsonKeys \ SchemaNames /= {}
    /\ DOMAIN attributes.data /= {}

-----------------------------------------------------------------------------
(* Specification SpecStorage: store, retrieve, list and delete calls on one  *)
(* storage backend (FileStorage; ParquetStorage keeps a row per call and     *)
(* retrieves the same way)                                                   *)

MaxStores == 2     \* number of files written by the store calls

\* item ids are handled character by character
invalid_chars == {"/", "\\", ":", "*", "?", "\"", "<", ">", "|"}

ItemIds == {<<"a">>, <<"b">>}

\* an empty id and, for each invalid character, an id that contains it
InvalidIds == {<<>>} \cup {<<"a", c>> : c \in invalid_chars}

\* StorageBackend._validate_item_id: TRUE when it raises StorageError
validate_item_id_raises(id) ==
    id = <<>> \/ \E i \in DOMAIN id : id[i] \in invalid_chars

\* the three kinds of data and the directory (FileStorage) each is kept under
DataTypes == {"attributes", "raw_responses", "lineage"}

\* the records the pipeline hands to the backend
StoredRecords ==
    {parse(c, FullSchema, TRUE).attributes :
        c \in {x \in ProviderTexts : parse(x, FullSchema, TRUE).ok}}

\* list(attributes.tags): some enumeration of the set
SetToSeq(S) == CHOOSE s \in [1..Cardinality(S) -> S] : {s[i] : i \in DOMAIN s} = S

\* the 'attributes' object written by json.dump
to_json(a) ==
    [data |-> a.data, keys |-> a.keys, confidences |-> a.confidences,
     tags |-> SetToSeq(a.tags), notes |-> a.notes]

\* Attributes(...) rebuilt from the object read by json.load
from_json(j) ==
    [data |-> j.data, keys |-> j.keys, confidences |-> j.confidences,
     tags |-> {j.tags[i] : i \in DOMAIN j.tags}, notes |-> j.notes]

\* BaseStorage._generate_storage_id: item id, data type and the time of the call
generate_storage_id(id, data_type, timestamp) ==
    [item_id |-> id, data_type |-> data_type, timestamp |-> timestamp]

InitStorage ==
    /\ parquet = NoParquet
    /\ factory = NoFactory
    /\ setup = NoSetup
    /\ last_call = NoCall
    /\ storage = <<>> /\ storage_ids = <<>> /\ retrieved = NoRetrieval /\ calls = <<>>
    /\ content = <<>> /\ markdown = TRUE /\ strict_json = FALSE /\ can_parse_result = {}
    /\ xpc = "idle" /\ xtried = <<>> /\ xresult = NoText
    /\ schema = FullSchema /\ thresholds = DEFAULT_FIELD_THRESHOLDS /\ ppc = "idle"
    /\ attributes = NoRecord /\ decision = NoDecision
    /\ paths = <<>> /\ idx = 0 /\ bpc = "idle" /\ item_id = None
    /\ raw_response = None /\ results = <<>>

storageFrame == <<paths, idx, bpc, item_id, raw_response, results,
                  parseVars, extractVars, callVars>>

\* a store that validates nothing and writes under whatever id it is given
\* (not the program's)
StoreFileUnvalidated(op, id, data_type, file, passed) ==
    /\ storage' = Append(storage,
                    [kind |-> data_type, item_id |-> id, call |-> Len(storage) + 1,
                     file |-> file, passed |-> passed, present |-> TRUE])
    /\ storage_ids' = Append(storage_ids,
                        generate_storage_id(id, data_type, Len(storage) + 1))
    /\ last_call' = [op |-> op, item_id |-> id, raised |-> FALSE]
    /\ UNCHANGED <<retrieved, storageFrame, setupVars, factoryVars, parquetVars>>

\* the body shared by the three store methods: _validate_item_id, then a new
\* timestamped file under <item_id>/<data_type>/ and the storage id returned;
\* passed remembers what the caller handed in, present turns FALSE when the
\* item's directory is removed
StoreFile(op, id, data_type, file, passed) ==
    IF validate_item_id_raises(id)
    THEN /\ last_call' = [op |-> op, item_id |-> id, raised |-> TRUE]
         /\ UNCHANGED <<storage, storage_ids, retrieved, storageFrame, setupVars, factoryVars, parquetVars>>
    ELSE StoreFileUnvalidated(op, id, data_type, file, passed)

store_attributes(id, a) == StoreFile("store_attributes", id, "attributes", to_json(a), a)

store_raw_response(id, raw) == StoreFile("store_raw_response", id, "raw_responses", raw, raw)

store_lineage(id, lineage) == StoreFile("store_lineage", id, "lineage", lineage, lineage)

\* a test that still sees a directory after it was removed (not the program's)
ItemDirEverCreated(id) ==
    \E k \in DOMAIN storage : storage[k].item_id = id

\* the item's directory exists
item_dir_exists(id) ==
    \E k \in DOMAIN storage : storage[k].item_id = id /\ storage[k].present

\* _find_storage_file: the storage id is split into item id and data type,
\* and the most recent file of that item and type is taken
find_storage_file(storage_id, data_type) ==
    LET files == {k \in DOMAIN storage :
                     /\ storage[k].item_id = storage_id.item_id
                     /\ storage[k].kind = data_type
                     /\ storage[k].present}
    IN IF storage_id.data_type /= data_type \/ files = {} THEN 0
       ELSE CHOOSE k \in files : \A j \in files : j <= k

\* retrieve_attributes(storage_id)
retrieve_attributes(storage_id) ==
    /\ LET file_path == find_storage_file(storage_id, "attributes")
           out == IF file_path = 0 THEN NoRecord ELSE from_json(storage[file_path].file)
       IN /\ retrieved' = [storage_id |-> storage_id, attributes |-> out]
          /\ last_call' = [op |-> "retrieve_attributes", storage_id |-> storage_id,
                           found |-> file_path /= 0]
    /\ UNCHANGED <<storage, storage_ids, storageFrame, setupVars, factoryVars, parquetVars>>

\* retrieve_raw_response(storage_id) and retrieve_lineage(storage_id)
retrieve_other(op, storage_id, data_type) ==
    /\ last_call' = [op |-> op, storage_id |-> storage_id,
                     found |-> find_storage_file(storage_id, data_type) /= 0]
    /\ UNCHANGED <<storage, storage_ids, retrieved, storageFrame, setupVars, factoryVars, parquetVars>>

\* list_items(): one entry per directory under the storage root
list_items ==
    /\ last_call' = [op |-> "list_items",
                     out |-> {id \in ItemIds \cup InvalidIds : item_dir_exists(id)}]
    /\ UNCHANGED <<storage, storage_ids, retrieved, storageFrame, setupVars, factoryVars, parquetVars>>

\* delete_item(item_id): rmtree of the item's directory when it exists
delete_item(id) ==
    /\ last_call' = [op |-> "delete_item", item_id |-> id, out |-> item_dir_exists(id)]
    /\ storage' = [k \in DOMAIN storage |->
                      IF storage[k].item_id = id
                      THEN [storage[k] EXCEPT !.present = FALSE] ELSE storage[k]]
    /\ UNCHANGED <<storage_ids, retrieved, storageFrame, setupVars, factoryVars, parquetVars>>

StoreAttributesCall ==
    /\ Len(storage) < MaxStores
    /\ \E id \in ItemIds \cup InvalidIds, a \in StoredRecords : store_attributes(id, a)

StoreRawResponseCall ==
    /\ Len(storage) < MaxStores
    /\ \E id \in ItemIds \cup InvalidIds : store_raw_response(id, "raw")

StoreLineageCall ==
    /\ Len(storage) < MaxStores
    /\ \E id \in ItemIds \cup InvalidIds : store_lineage(id, "lineage")

RetrieveAttributesCall ==
    \E k \in DOMAIN storage_ids : retrieve_attributes(storage_ids[k])

RetrieveRawResponseCall ==
    \E k \in DOMAIN storage_ids :
        retrieve_other("retrieve_raw_response", storage_ids[k], "raw_responses")

RetrieveLineageCall ==
    \E k \in DOMAIN storage_ids :
        retrieve_other("retrieve_lineage", storage_ids[k], "lineage")

ListItemsCall == list_items

DeleteItemCall == \E id \in ItemIds : delete_item(id)

NextStorage ==
    \/ StoreAttributesCall \/ StoreRawResponseCall \/ StoreLineageCall
    \/ RetrieveAttributesCall \/ RetrieveRawResponseCall \/ RetrieveLineageCall
    \/ ListItemsCall \/ DeleteItemCall

SpecStorage == InitStorage /\ [][NextStorage]_vars

-----------------------------------------------------------------------------
\* the fields flagged low_confidence, in the order of the record's fields
IsLowConfidence(f) ==
    f \in DOMAIN decision.field_flags /\ decision.field_flags[f] = "low_confidence"

LowConfidenceFields == SelectSeq(attributes.keys, IsLowConfidence)

\* what each entry of decision.reasons is about: a field name or "overall"
ReasonSubjects == [k \in DOMAIN decision.reasons |-> decision.reasons[k].about]

\* C19: decision.reasons holds one entry per field flagged low_confidence, in
\* field order, followed by exactly one overall-rejection entry if and only if
\* accepted is false; so reasons is empty exactly when the record is accepted
\* and no field is flagged low_confidence.
C19_ReasonsPerLowFieldThenOverall ==
    Decided =>
        /\ ReasonSubjects = IF decision.accepted THEN LowConfidenceFields
                            ELSE Append(LowConfidenceFields, "overall")
        /\ (decision.reasons = <<>>) <=>
               (decision.accepted /\ LowConfidenceFields = <<>>)

\* two fields flagged and the record rejected: two field entries and the overall one
C19_Witness ==
    /\ Decided
    /\ ~decision.accepted
    /\ Len(LowConfidenceFields) = 2
    /\ Len(decision.reasons) = 3

-----------------------------------------------------------------------------
(* Specification SpecCalls: one JSONParser and one PipelineService answering *)
(* a series of parse and _make_decision calls                                *)

MaxCalls == 4     \* number of calls made on the two objects

\* VLMRaw: the response text and the time the provider answered
Timestamps == {"t1", "t2"}

RawContents ==
    {<<"{", "brand:", "{", "value:", "'Nike'", ",", "confidence:", "0.9", "}", "}">>,
     <<"{", "brand:", "{", "value:", "'Nike'", ",", "confidence:", "0.4", "}", ",",
       "notes:", "'red'", "}">>,
     <<"tx">>}

RawResponses == [content : RawContents, timestamp : Timestamps]

CallSchemas == {FullSchema, <<[name |-> "brand", schema |-> ScalarSchema]>>}

CallPolicies == {DEFAULT_FIELD_THRESHOLDS, ("default" :> 50 * Cent)}

\* a record that carries the response's timestamp in its notes (not the program's)
StampedNotes(a, raw) ==
    [data |-> a.data, keys |-> a.keys, confidences |-> a.confidences, tags |-> a.tags,
     notes |-> raw.timestamp,
     lineage |-> [parser |-> "json", timestamp |-> raw.timestamp]]

\* Attributes(..., lineage=lineage): the response's timestamp goes into the lineage
WithLineage(a, raw) ==
    [data |-> a.data, keys |-> a.keys, confidences |-> a.confidences, tags |-> a.tags,
     notes |-> a.notes,
     lineage |-> [parser |-> "json", timestamp |-> raw.timestamp]]

\* JSONParser.parse(raw_response, schema)
parse_raw(raw, sch, md) ==
    LET r == parse(raw.content, sch, md) IN
    IF r.ok THEN [ok |-> TRUE, attributes |-> WithLineage(r.attributes, raw)]
    ELSE [ok |-> FALSE]

\* the records a caller may hand to _make_decision: those parse has returned
CallRecords ==
    {calls[k].out.attributes : k \in {j \in DOMAIN calls : calls[j].op = "parse" /\ calls[j].out.ok}}

InitCalls ==
    /\ parquet = NoParquet
    /\ factory = NoFactory
    /\ setup = NoSetup
    /\ last_call = NoCall
    /\ calls = <<>>
    /\ markdown = TRUE /\ strict_json = FALSE /\ thresholds \in CallPolicies
    /\ storage = <<>> /\ storage_ids = <<>> /\ retrieved = NoRetrieval
    /\ content = <<>> /\ can_parse_result = {}
    /\ xpc = "idle" /\ xtried = <<>> /\ xresult = NoText
    /\ schema = FullSchema /\ ppc = "idle"
    /\ attributes = NoRecord /\ decision = NoDecision
    /\ paths = <<>> /\ idx = 0 /\ bpc = "idle" /\ item_id = None
    /\ raw_response = None /\ results = <<>>

\* parser.parse(raw_response, schema): reads the parser's extract_from_markdown,
\* assigns to nothing
ParseCall ==
    /\ Len(calls) < MaxCalls
    /\ \E raw \in RawResponses, sch \in CallSchemas :
          calls' = Append(calls, [op |-> "parse", raw_response |-> raw, schema |-> sch,
                                  out |-> parse_raw(raw, sch, markdown)])
    /\ UNCHANGED <<parseVars, extractVars, pipelineVars, storeVars, lastVars, setupVars, factoryVars, parquetVars>>

\* service._make_decision(attributes, schema): reads the service's config,
\* assigns to nothing
DecideCall ==
    /\ Len(calls) < MaxCalls
    /\ \E a \in CallRecords :
          calls' = Append(calls, [op |-> "decide", attributes |-> a, policy |-> thresholds,
                                  out |-> make_decision(a, thresholds)])
    /\ UNCHANGED <<parseVars, extractVars, pipelineVars, storeVars, lastVars, setupVars, factoryVars, parquetVars>>

NextCalls == ParseCall \/ DecideCall

SpecCalls == InitCalls /\ [][NextCalls]_vars

\* a parse result without the provenance timestamp
SansTimestamp(out) ==
    IF out.ok
    THEN [ok |-> TRUE, data |-> out.attributes.data, keys |-> out.attributes.keys,
          confidences |-> out.attributes.confidences, tags |-> out.attributes.tags,
          notes |-> out.attributes.notes, parser |-> out.attributes.lineage.parser]
    ELSE [ok |-> FALSE]

SameParseInput(i, j) ==
    /\ calls[i].op = "parse" /\ calls[j].op = "parse"
    /\ calls[i].raw_response.content = calls[j].raw_response.content
    /\ calls[i].schema = calls[j].schema

SameDecideInput(i, j) ==
    /\ calls[i].op = "decide" /\ calls[j].op = "decide"
    /\ calls[i].attributes = calls[j].attributes
    /\ calls[i].policy = calls[j].policy

-----------------------------------------------------------------------------
\* C21 as stated: a parser configured with strict_json = True accepts only a
\* response whose whole trimmed content is valid JSON; for JSON inside a fenced
\* block or embedded in prose can_parse answers false and parse fails.
C21_StrictParserAcceptsOnlyPureJson ==
    (strict_json /\ ~is_pure_json(Strip(content))) =>
        /\ TRUE \notin can_parse_result
        /\ ~(xpc = "returned" /\ parse(content, schema, markdown).ok)

-----------------------------------------------------------------------------
\* some data is currently stored for the item
HasData(id) == \E k \in DOMAIN storage : storage[k].item_id = id /\ storage[k].present

\* the item was stored, then deleted, and not stored again since
DeletedSince(id) == ~HasData(id) /\ \E k \in DOMAIN storage : storage[k].item_id = id

RetrieveOps == {"retrieve_attributes", "retrieve_raw_response", "retrieve_lineage"}

\* the step is a delete_item(id) call
DeleteStep(id) ==
    /\ last_call'.op = "delete_item"
    /\ last_call'.item_id = id
    /\ last_call' /= last_call

\* what the calls answer for an item that has no data
NoDataAnswers(id) ==
    /\ last_call.op = "list_items" => id \notin last_call.out
    /\ (last_call.op \in RetrieveOps /\ last_call.storage_id.item_id = id) =>
           ~last_call.found
    /\ (last_call.op = "retrieve_attributes" /\ last_call.storage_id.item_id = id) =>
           retrieved.attributes = NoRecord

-----------------------------------------------------------------------------
StoreOps == {"store_attributes", "store_raw_response", "store_lineage"}

\* the item id is empty or contains one of / \ : * ? " < > |
IdRejected(id) ==
    \/ id = <<>>
    \/ \E i \in DOMAIN id : id[i] \in {"/", "\\", ":", "*", "?", "\"", "<", ">", "|"}

\* C23: a store_attributes, store_raw_response or store_lineage call whose item
\* id is empty or contains one of the characters / \ : * ? " < > | raises
\* StorageError and leaves the stored contents as they were.
C23_InvalidItemIdRaisesAndStoresNothing ==
    /\ []((last_call.op \in StoreOps /\ IdRejected(last_call.item_id)) => last_call.raised)
    /\ [][(/\ last_call'.op \in StoreOps
           /\ last_call' /= last_call
           /\ IdRejected(last_call'.item_id)) => storage' = storage]_vars

\* a store_lineage call with a '|' in the id has raised, the file stored before is kept
C23_Witness ==
    /\ last_call.op = "store_lineage"
    /\ last_call.item_id = <<"a", "|">>
    /\ last_call.raised
    /\ Len(storage) = 1
    /\ storage[1].present

-----------------------------------------------------------------------------
(* Specification SpecSetup: PipelineService.__init__ setting up its five     *)
(* components in order, any of which may fail                                *)

\* the components in the order __init__ sets them up, with the name each
\* _setup_ method puts in its message
Components == <<"ingestor", "prompt builder", "provider", "parser", "storage">>

ComponentNames == {Components[i] : i \in DOMAIN Components}

\* core.exceptions: each class with its base class
BaseClass ==
    [VLMError |-> "Exception", PipelineError |-> "VLMError",
     ConfigurationError |-> "VLMError", Exception |-> "BaseException"]

RECURSIVE IsSubclass(_, _)
IsSubclass(cls, base) ==
    \/ cls = base
    \/ cls \in DOMAIN BaseClass /\ IsSubclass(BaseClass[cls], base)

\* wrap_exception(e, message, context): a VLMError carrying the message
wrap_exception(original_type, message) ==
    [type |-> "VLMError", message |-> message, original_type |-> original_type]

\* config.ingestor, and for each component whether its constructor raises
SetupConfigs ==
    [ingestor : {"ingest.fs", "ingest.other"}, failing : SUBSET ComponentNames]

InitSetup ==
    /\ parquet = NoParquet
    /\ factory = NoFactory
    /\ setup \in {[pc |-> Components[1], config |-> c, error |-> NoError] : c \in SetupConfigs}
    /\ last_call = NoCall
    /\ calls = <<>>
    /\ storage = <<>> /\ storage_ids = <<>> /\ retrieved = NoRetrieval
    /\ content = <<>> /\ markdown = TRUE /\ strict_json = FALSE /\ can_parse_result = {}
    /\ xpc = "idle" /\ xtried = <<>> /\ xresult = NoText
    /\ schema = FullSchema /\ thresholds = DEFAULT_FIELD_THRESHOLDS /\ ppc = "idle"
    /\ attributes = NoRecord /\ decision = NoDecision
    /\ paths = <<>> /\ idx = 0 /\ bpc = "idle" /\ item_id = None
    /\ raw_response = None /\ results = <<>>

\* the body of one _setup_ method: an exception of the try block, whatever its
\* type, leaves as wrap_exception(e, "Failed to initialize <component>")
SetupStep(i, original_type) ==
    /\ setup' = IF original_type = "none"
                THEN [setup EXCEPT !.pc = IF i < Len(Components) THEN Components[i + 1]
                                          ELSE "done"]
                ELSE [setup EXCEPT !.pc = "raised",
                                   !.error = wrap_exception(original_type,
                                               <<"Failed to initialize", Components[i]>>)]
    /\ UNCHANGED <<parseVars, extractVars, pipelineVars, storeVars, callVars, lastVars, factoryVars, parquetVars>>

\* what the constructor of the component does
ConstructorRaises(name) == IF name \in setup.config.failing THEN "Exception" ELSE "none"

\* _setup_ingestor: an ingestor other than ingest.fs raises PipelineError inside the try
SetupIngestor ==
    /\ setup.pc = "ingestor"
    /\ SetupStep(1, IF setup.config.ingestor /= "ingest.fs" THEN "PipelineError"
                    ELSE ConstructorRaises("ingestor"))

SetupPromptBuilder ==
    /\ setup.pc = "prompt builder"
    /\ SetupStep(2, ConstructorRaises("prompt builder"))

SetupProvider ==
    /\ setup.pc = "provider"
    /\ SetupStep(3, ConstructorRaises("provider"))

SetupParser ==
    /\ setup.pc = "parser"
    /\ SetupStep(4, ConstructorRaises("parser"))

SetupStorage ==
    /\ setup.pc = "storage"
    /\ SetupStep(5, ConstructorRaises("storage"))

NextSetup ==
    SetupIngestor \/ SetupPromptBuilder \/ SetupProvider \/ SetupParser \/ SetupStorage

SpecSetup == InitSetup /\ [][NextSetup]_vars

\* the first component, in setup order, whose setup fails under the config
FirstFailing ==
    LET fails(i) == \/ Components[i] \in setup.config.failing
                    \/ i = 1 /\ setup.config.ingestor /= "ingest.fs"
    IN IF \E i \in DOMAIN Components : fails(i)
       THEN CHOOSE i \in DOMAIN Components : fails(i) /\ \A j \in 1..(i - 1) : ~fails(j)
       ELSE 0

\* C24 as stated: when the setup of a component fails, construction raises a
\* PipelineError whose message names the component that failed to initialize.
C24_SetupFailureRaisesPipelineError ==
    setup.pc = "raised" =>
        /\ IsSubclass(setup.error.type, "PipelineError")
        /\ setup.error.message = <<"Failed to initialize", Components[FirstFailing]>>

-----------------------------------------------------------------------------
\* the substring from the first '{' of the trimmed text to the brace that
\* returns the nesting depth to zero, <<>> when there is none
OuterObject ==
    LET c == Strip(content)
        first == IndexFrom(c, "{", 1)
        last == IF first > Len(c) THEN 0 ELSE MatchingBrace(c, first, 0)
    IN IF last = 0 THEN <<>> ELSE SubSeq(c, first, last)

\* C25 as stated: when the text is neither pure JSON nor holds a parseable
\* fenced block, and the substring from the first '{' to its matching '}' is
\* valid JSON, that substring is exactly what extraction returns, for objects
\* of any nesting depth (never an inner sub-object).
C25_BraceScanReturnsOuterObject ==
    (/\ xpc = "returned"
     /\ ~is_pure_json(Strip(content))
     /\ ~StrategyOut("markdown", Strip(content), markdown).found
     /\ OuterObject /= <<>>
     /\ is_pure_json(OuterObject)) => xresult.text = OuterObject

-----------------------------------------------------------------------------
\* the response whose object holds the members b, c and n (an absent member is <<>>)
Document(b, c, n) == <<"{">> \o Join(NonEmpty(<<b, c, n>>), <<",">>) \o <<"}">>

\* the schema declares notes as a freeform string
DeclaresFreeformNotes ==
    \E i \in DOMAIN schema : schema[i].name = "notes" /\ schema[i].schema.t = "str"

\* C26 as stated: under a schema that declares notes as a freeform string, a
\* response and the same response without its 'notes' string are parsed into
\* records with the same confidences and the same confidence tag, and get the
\* same decision.
C26_NotesDoNotInfluenceConfidence ==
    \A b \in Members("brand:", BrandValues), c \in Members("primary_colors:", ListValues),
       n \in NotesValues :
        (/\ HasRecord
         /\ DeclaresFreeformNotes
         /\ content = Document(b, c, <<"notes:">> \o n)) =>
            LET twin == parse(Document(b, c, <<>>), schema, markdown) IN
            /\ twin.ok
            /\ twin.attributes.confidences = attributes.confidences
            /\ twin.attributes.tags = attributes.tags
            /\ make_decision(twin.attributes, thresholds)
                   = make_decision(attributes, thresholds)

-----------------------------------------------------------------------------
\* C27 as stated: ParseService.parse_response accepts the responses that
\* JSONParser.parse accepts: whenever direct parsing of the response returns a
\* record, the service has not failed on it and returns an equal record.
C27_ServiceAcceptsWhatParserAccepts ==
    LET direct == parse(content, schema, markdown) IN
    direct.ok =>
        /\ ppc /= "parse_error"
        /\ HasRecord => attributes = direct.attributes

-----------------------------------------------------------------------------
(* Specification SpecFactory: a ParserFactory taking register_parser calls   *)
(* and answering get_parser for one response                                 *)

MaxParsers == 2     \* number of register_parser calls

Priorities == {-1, 0, 1, 2}

\* the responses get_parser is asked about: pure JSON and prose
FactoryTexts == {<<"{", "brand:", "'Nike'", "}">>, <<"tx">>}

\* the custom parsers, in the order of their registration
ParserNames == <<"first", "second", "third">>

\* no get_parser call has returned yet
NoParser == [raised |-> FALSE, parser |-> "none"]

\* ParserFactory.__init__ and _register_default_parsers: the JSONParser alone
InitFactory ==
    /\ parquet = NoParquet
    /\ factory = [parsers |-> <<[name |-> "json", custom |-> FALSE]>>, got |-> NoParser]
    /\ content \in FactoryTexts
    /\ setup = NoSetup
    /\ last_call = NoCall
    /\ calls = <<>>
    /\ storage = <<>> /\ storage_ids = <<>> /\ retrieved = NoRetrieval
    /\ markdown = TRUE /\ strict_json = FALSE /\ can_parse_result = {}
    /\ xpc = "idle" /\ xtried = <<>> /\ xresult = NoText
    /\ schema = FullSchema /\ thresholds = DEFAULT_FIELD_THRESHOLDS /\ ppc = "idle"
    /\ attributes = NoRecord /\ decision = NoDecision
    /\ paths = <<>> /\ idx = 0 /\ bpc = "idle" /\ item_id = None
    /\ raw_response = None /\ results = <<>>

\* list.insert(index, x)
Insert(s, index, x) == SubSeq(s, 1, index) \o <<x>> \o SubSeq(s, index + 1, Len(s))

\* the loop of register_parser: with priority > 0 it breaks at the first
\* existing parser (index 0), otherwise it runs to the end of the list
insert_index(parsers, priority) ==
    IF parsers = <<>> \/ priority > 0 THEN 0 ELSE Len(parsers)

\* register_parser(parser, priority): the parser is a custom one whose can_parse
\* answers accepts; its priority is not kept by the factory (registered_with
\* remembers it for the properties); got holds the answer of a get_parser call
\* made on the present list, so a registration clears it
register_parser(name, accepts, priority) ==
    /\ factory' = [parsers |->
                      Insert(factory.parsers, insert_index(factory.parsers, priority),
                             [name |-> name, custom |-> TRUE, accepts |-> accepts,
                              registered_with |-> priority]),
                    got |-> NoParser]
    /\ UNCHANGED <<parseVars, extractVars, pipelineVars, storeVars, callVars, lastVars,
                   setupVars, parquetVars>>

\* parser.can_parse(raw_response) for a parser of the list
ParserAccepts(p) == IF p.custom THEN p.accepts ELSE can_parse(content, markdown)

\* get_parser(raw_response): the first parser of the list whose can_parse is
\* true, ParseError when there is none
get_parser ==
    /\ LET ok == {i \in DOMAIN factory.parsers : ParserAccepts(factory.parsers[i])} IN
       factory' = [factory EXCEPT !.got =
                      IF ok = {} THEN [raised |-> TRUE, parser |-> "none"]
                      ELSE [raised |-> FALSE,
                            parser |-> factory.parsers[CHOOSE i \in ok :
                                                          \A j \in ok : i <= j].name]]
    /\ UNCHANGED <<parseVars, extractVars, pipelineVars, storeVars, callVars, lastVars,
                   setupVars, parquetVars>>

RegisterParserCall ==
    /\ Len(factory.parsers) <= MaxParsers
    /\ \E accepts \in BOOLEAN, priority \in Priorities :
          register_parser(ParserNames[Len(factory.parsers)], accepts, priority)

GetParserCall == get_parser

NextFactory == RegisterParserCall \/ GetParserCall

SpecFactory == InitFactory /\ [][NextFactory]_vars

\* the custom parsers of the list that accept the response
AcceptingCustom ==
    {i \in DOMAIN factory.parsers :
        factory.parsers[i].custom /\ factory.parsers[i].accepts}

\* C28 as stated: after any sequence of register_parser calls, get_parser
\* consults the parsers in order of preference, one registered with a higher
\* priority before one registered with a lower priority, and returns the first
\* whose can_parse is true; it raises a parse error when none accepts.
C28_GetParserFollowsPriority ==
    factory.got /= NoParser =>
        /\ factory.got.raised <=>
               \A i \in DOMAIN factory.parsers : ~ParserAccepts(factory.parsers[i])
        /\ \A i \in AcceptingCustom :
              factory.got.parser = factory.parsers[i].name =>
                  \A j \in AcceptingCustom :
                      factory.parsers[j].registered_with
                          <= factory.parsers[i].registered_with

-----------------------------------------------------------------------------
(* The keys of a parsed record, under Spec *)

\* the keys of attributes.data in insertion order, as a set
DataKeys == {attributes.keys[i] : i \in 1..Len(attributes.keys)}

\* C29: in every record returned by JSONParser.parse the key set of data equals
\* the key set of confidences, so the decision step, which walks data and skips
\* a field without a confidence, flags every parsed field and averages over all
\* of them.
C29_DataAndConfidencesShareKeys ==
    /\ HasRecord =>
          /\ DOMAIN attributes.data = DOMAIN attributes.confidences
          /\ DataKeys = DOMAIN attributes.data
    /\ Decided =>
          /\ DOMAIN decision.field_flags = DOMAIN attributes.data
          /\ decision.confidence_score = Aggregate(ConfSum, Cardinality(DataKeys))

\* a record with a scalar, a list and a direct value field has been decided on
C29_Witness ==
    /\ Decided
    /\ DOMAIN attributes.data = {"brand", "primary_colors", "notes"}
    /\ DOMAIN decision.field_flags = {"brand", "primary_colors", "notes"}

-----------------------------------------------------------------------------
(* Specification SpecParquet: workers calling store_attributes on one        *)
(* ParquetStorage file. A call reads the file, appends its row to the        *)
(* DataFrame it read and writes the DataFrame back; the workers' steps       *)
(* interleave freely, and each read and each write of the file is one step.  *)

MaxRounds == 2      \* store_attributes calls made by each worker

Workers == {1, 2}

ParquetItems == {"a", "b"}

\* a worker between two store_attributes calls
IdleWorker(n) == [pc |-> "idle", left |-> n, df |-> <<>>, new_row |-> <<>>, stored |-> <<>>]

\* ParquetStorage.__init__ on a path with no file: _init_empty_storage writes
\* an empty DataFrame
InitParquet ==
    /\ parquet = [file |-> <<>>, workers |-> [w \in Workers |-> IdleWorker(MaxRounds)]]
    /\ factory = NoFactory
    /\ setup = NoSetup
    /\ last_call = NoCall
    /\ calls = <<>>
    /\ storage = <<>> /\ storage_ids = <<>> /\ retrieved = NoRetrieval
    /\ content = <<>> /\ markdown = TRUE /\ strict_json = FALSE /\ can_parse_result = {}
    /\ xpc = "idle" /\ xtried = <<>> /\ xresult = NoText
    /\ schema = FullSchema /\ thresholds = DEFAULT_FIELD_THRESHOLDS /\ ppc = "idle"
    /\ attributes = NoRecord /\ decision = NoDecision
    /\ paths = <<>> /\ idx = 0 /\ bpc = "idle" /\ item_id = None
    /\ raw_response = None /\ results = <<>>

parquetFrame == <<parseVars, extractVars, pipelineVars, storeVars, callVars, lastVars,
                  setupVars, factoryVars>>

\* _load_dataframe: pd.read_parquet(self.file_path)
load_dataframe == parquet.file

\* _save_dataframe: df.to_parquet(self.file_path) replaces the file's content
save_dataframe(df) == df

\* store_attributes up to `df = self._load_dataframe()`, and the new row
LoadStep(w) ==
    /\ parquet.workers[w].pc = "idle"
    /\ parquet.workers[w].left > 0
    /\ \E id \in ParquetItems :
          parquet' = [parquet EXCEPT
                         !.workers[w].pc = "loaded",
                         !.workers[w].df = load_dataframe,
                         !.workers[w].new_row =
                             <<[item_id |-> id, data_type |-> "attributes", by |-> w,
                                call |-> parquet.workers[w].left]>>]
    /\ UNCHANGED parquetFrame

\* df = pd.concat([df, new_row], ignore_index=True)
ConcatStep(w) ==
    /\ parquet.workers[w].pc = "loaded"
    /\ parquet' = [parquet EXCEPT
                      !.workers[w].pc = "concatenated",
                      !.workers[w].df = parquet.workers[w].df \o parquet.workers[w].new_row]
    /\ UNCHANGED parquetFrame

\* self._save_dataframe(df) and the return of the storage id
SaveStep(w) ==
    /\ parquet.workers[w].pc = "concatenated"
    /\ parquet' = [parquet EXCEPT
                      !.file = save_dataframe(parquet.workers[w].df),
                      !.workers[w].pc = "idle",
                      !.workers[w].left = parquet.workers[w].left - 1,
                      !.workers[w].df = <<>>,
                      !.workers[w].new_row = <<>>,
                      !.workers[w].stored =
                          parquet.workers[w].stored \o parquet.workers[w].new_row]
    /\ UNCHANGED parquetFrame

Load == \E w \in Workers : LoadStep(w)
Concat == \E w \in Workers : ConcatStep(w)
Save == \E w \in Workers : SaveStep(w)

NextParquet == Load \/ Concat \/ Save

SpecParquet == InitParquet /\ [][NextParquet]_vars

\* the rows of a sequence, as a set
Rows(s) == {s[i] : i \in 1..Len(s)}

\* every worker has made all its calls
AllStoresCompleted ==
    \A w \in Workers : parquet.workers[w].pc = "idle" /\ parquet.workers[w].left = 0

\* C30 as stated: when two workers run store operations concurrently against
\* the same ParquetStorage file, every row whose store call has returned is in
\* the file once all the calls have completed: no interleaving loses an update.
C30_NoInterleavingLosesAnUpdate ==
    AllStoresCompleted =>
        \A w \in Workers : Rows(parquet.workers[w].stored) \subseteq Rows(parquet.file)

====
